---- MODULE Spec2Model ----
(***************************************************************************)
(* Model of the video editing service: the two processing endpoints of    *)
(* main.py (request staging, output path generation, cleanup), the         *)
(* transcode orchestration of services/video_processor.py (probe,          *)
(* engine run, outcome classification), the metadata probe                 *)
(* get_video_info and the filter graph compiler build_overlay_filter.      *)
(*                                                                         *)
(* Requests run on one cooperative event loop: a handler runs without      *)
(* interruption between two awaits, so every action below is the code      *)
(* between two consecutive awaits of one handler.                          *)
(***************************************************************************)
EXTENDS Integers, Sequences, FiniteSets, TLC

\* ------------------------------------------------------------------ bounds
\* Largest value of the event loop clock, in milliseconds.
MaxClock == 1
\* Number of logo_<idx> upload fields a form may carry (idx 0..MaxLogoFields-1).
MaxLogoFields == 2

\* The requests in flight.
Req == {1, 2}

\* ------------------------------------------------------- names and paths
\* Uploaded video file names.  "x/b.mp4" names a directory that does not
\* exist under uploads/, so open(..., "wb") raises for it.
VideoNames == {"a.mp4", "x/b.mp4"}
\* Uploaded logo file names, same convention.
LogoNames == {"l.png", "x/m.png"}
\* The filename key of a logoOverlay_<idx> config; NoKey: the config is
\* absent, is not valid JSON or has no "filename".
LogoKeys == {"logo"}
NoKey == "-"

\* open(path, "wb") succeeds iff the directory of the path exists.
Stageable(name) == name \in {"a.mp4", "l.png"}

\* Path(filename).stem
Stem(name) == CASE name = "a.mp4" -> "a"
                [] name = "x/b.mp4" -> "b"
                [] OTHER -> name

\* A path is <<prefix, number, name>>.  f"proc_{filename}",
\* f"logo_{idx}_{filename}" and f"processed_{stem}_{ms}.mp4" are injective in
\* their arguments and the three prefixes differ, so two paths are equal
\* exactly when their tuples are.
UPLOAD_DIR == "uploads"
OUTPUT_DIR == "outputs"
TempVideoPath(name) == <<UPLOAD_DIR, "proc", 0, name>>
LogoPath(idx, name) == <<UPLOAD_DIR, "logo", idx, name>>
OutputPath(name, ms) == <<OUTPUT_DIR, "processed", ms, Stem(name)>>
NoPath == <<"", "", 0, "">>

LogoIdx == 0..(MaxLogoFields - 1)
AllPaths == {TempVideoPath(n) : n \in VideoNames}
            \cup {LogoPath(i, n) : i \in LogoIdx, n \in LogoNames}
            \cup {OutputPath(n, t) : n \in VideoNames, t \in 0..MaxClock}

\* ------------------------------------------------------------ the engine
\* Bytes of the engine's diagnostic stream: an ASCII letter and a byte that
\* occurs in no UTF-8 text.
StderrValues == {<<65>>, <<65, 255>>}
ExitCodes == {0, 1}

\* bytes.decode(): strict UTF-8.
Decodable(bytes) == \A i \in 1..Len(bytes) : bytes[i] < 128
decode(bytes) == bytes

\* Probe tool runs: the exit code and what stdout holds (the JSON of a video
\* file, text that is no JSON, or JSON with no or an empty streams entry,
\* which is also what the tool prints when it fails).
\* r_frame_rate is the stream's frame-rate entry when stdout is the JSON of a
\* video file: a string, given as the tuple of its characters inside a
\* 1-tuple, or the empty tuple when the entry is absent.
NoRate == <<>>
ProbeRuns == {[returncode |-> 0, stdout |-> "json", r_frame_rate |-> <<<<"3", "0", "/", "1">>>>],
              [returncode |-> 0, stdout |-> "json", r_frame_rate |-> <<<<"0", "/", "0">>>>],
              [returncode |-> 0, stdout |-> "garbage", r_frame_rate |-> NoRate],
              [returncode |-> 0, stdout |-> "no_streams", r_frame_rate |-> NoRate],
              [returncode |-> 1, stdout |-> "no_streams", r_frame_rate |-> NoRate]}

\* DEBUG_MODE, now, fs, req: the service (the flag read at start-up, the loop
\* clock, the files on disk with the request that wrote each, the requests).
\* args, graph: one call of build_overlay_filter, its arguments and its result.
\* probe, info: one call of get_video_info, the probe tool's run and the result.
VARIABLES DEBUG_MODE, now, fs, req, args, graph, probe, info

vars == <<DEBUG_MODE, now, fs, req, args, graph, probe, info>>
request_vars == <<DEBUG_MODE, now, fs, req>>
compile_vars == <<args, graph>>
probe_vars == <<probe, info>>

NoFile == 0
Exists(f, p) == f[p] # NoFile

should_keep_file == DEBUG_MODE

\* cleanup_file: unlink the path if it exists, whoever wrote it.
cleanup_file(f, p) == IF p # NoPath /\ Exists(f, p) THEN [f EXCEPT ![p] = NoFile] ELSE f

\* for file_path in temp_files_to_cleanup: cleanup_file(file_path)
cleanup_files(f, paths) == [p \in DOMAIN f |-> IF p \in paths THEN cleanup_file(f, p)[p] ELSE f[p]]

\* The finally block of both endpoints.
Finally(f, paths) == IF should_keep_file THEN f ELSE cleanup_files(f, paths)

\* ------------------------------------------------------- get_video_info
\* get_video_info without its test of the streams entry.
get_video_info_no_stream_test(exists, returncode, stdout) ==
    IF ~exists THEN "InputNotFound"
    ELSE IF returncode # 0 THEN "ProbeFailure"
    ELSE IF stdout = "garbage" THEN "ProbeParseFailure"
    ELSE "ok"

\* The outcome of the probe: the path check comes first, then the tool's
\* exit code, then json.loads, then the streams entry.
get_video_info(exists, returncode, stdout) ==
    IF ~exists THEN "InputNotFound"
    ELSE IF returncode # 0 THEN "ProbeFailure"
    ELSE IF stdout = "garbage" THEN "ProbeParseFailure"
    ELSE IF stdout = "no_streams" THEN "NoVideoStream"
    ELSE "ok"

PreCompileFailures == {"InputNotFound", "ProbeFailure", "ProbeParseFailure", "NoVideoStream"}

\* -------------------------------------------------------- process_video
\* What process_video does with a finished engine run: stderr is decoded,
\* then the exit code is tested, then the output path.  detail carries what
\* the raised error's message carries.
NoDetail == <<>>
process_video(returncode, stderr, output_exists) ==
    IF ~Decodable(stderr)
    THEN [kind |-> "UnicodeDecodeError", detail |-> NoDetail]
    ELSE IF returncode # 0
    THEN [kind |-> "FFmpegFailed", detail |-> <<returncode, decode(stderr)>>]
    ELSE IF ~output_exists
    THEN [kind |-> "OutputNotCreated", detail |-> NoDetail]
    ELSE [kind |-> "success", detail |-> NoDetail]

\* ------------------------------------------------- build_overlay_filter
\* Optional[...] values: None is the empty tuple, a value v is <<v>>.
None == <<>>
Some(v) == <<v>>
Optional(S) == {None} \cup {Some(v) : v \in S}

\* a or b, for Optional numbers: None and 0 are false.
py_or(a, b) == IF a # None /\ a[1] # 0 THEN a ELSE b
\* a or b, for Optional strings: None and "" are false.
py_or_str(a, b) == IF a # None /\ a[1] # "" THEN a ELSE b

\* max(0, t - trim_start) without the clamp.
relative_time_unclamped(t, trim_start) == t - trim_start
\* max(0, t - trim_start)
relative_time(t, trim_start) == IF t - trim_start > 0 THEN t - trim_start ELSE 0

\* start_time = max(0, (o.start or o.startTime or 0) - trim_start)
start_time(o, trim_start) ==
    relative_time(py_or(py_or(o.start, o.startTime), Some(0))[1], trim_start)

\* end_time = (o.end or o.endTime); if end_time is not None: max(0, end_time - trim_start)
end_time(o, trim_start) ==
    LET e == py_or(o.end, o.endTime)
    IN IF e # None THEN Some(relative_time(e[1], trim_start)) ELSE None

\* enable='between(t,{start_time},{end_time if end_time is not None else 'INF'})'
INF == None
enable_clause(o, trim_start) ==
    [start |-> start_time(o, trim_start), end |-> end_time(o, trim_start)]

\* ---- floats: video_width / preview_width and value * scale_factor are
\* operations on IEEE 754 doubles, each rounded to the nearest double, a tie
\* going to the even significand.  A positive double is [hi, mid, lo, e]: its
\* 53-bit significand is hi * 2^36 + mid * 2^18 + lo with 2^16 <= hi < 2^17
\* and mid, lo < 2^18, and its value is significand * 2^(e - 52).  The double
\* 0.0 is Zero.  Three limbs keep every intermediate below 2^31 for widths
\* below 10240 and values below 8192.
Limb == 2^18
Zero == [hi |-> 0, mid |-> 0, lo |-> 0, e |-> 0]

\* The number of bits of an integer 1 <= n < 2^31.
bit_length(n) == CHOOSE b \in 1..31 : n \div 2^(b - 1) = 1

\* The next double above x.
next_up(x) ==
    LET lo == x.lo + 1
        mid == x.mid + lo \div Limb
        hi == x.hi + mid \div Limb
    IN IF hi = 2^17 THEN [hi |-> 2^16, mid |-> 0, lo |-> 0, e |-> x.e + 1]
       ELSE [hi |-> hi, mid |-> mid % Limb, lo |-> lo % Limb, e |-> x.e]

\* n / d as a double, for integers n >= 0 and d > 0: n or d is doubled until
\* d <= n < 2d, which gives the exponent e; then the long division yields the
\* 53 bits of the quotient, limb by limb, and what is left decides the rounding.
RECURSIVE float_div(_, _, _)
float_div(n, d, e) ==
    IF n = 0 THEN Zero
    ELSE IF n < d THEN float_div(2 * n, d, e - 1)
    ELSE IF n >= 2 * d THEN float_div(n, 2 * d, e + 1)
    ELSE LET hi == (n * 2^16) \div d
             r1 == (n * 2^16) % d
             mid == (r1 * Limb) \div d
             r2 == (r1 * Limb) % d
             lo == (r2 * Limb) \div d
             r3 == (r2 * Limb) % d
             x == [hi |-> hi, mid |-> mid, lo |-> lo, e |-> e]
         IN IF 2 * r3 > d \/ (2 * r3 = d /\ lo % 2 = 1) THEN next_up(x) ELSE x

\* k * x as a double, for an integer k >= 0 (exact as a double) and a double
\* x >= 0: the exact product limb by limb, then its first 53 bits, the s bits
\* below them deciding the rounding.
float_mul(k, x) ==
    IF k = 0 \/ x = Zero THEN Zero
    ELSE LET p3 == k * x.lo
             p2 == k * x.mid + p3 \div Limb
             p1 == k * x.hi + p2 \div Limb
             s == bit_length(p1) - 17
             dropped == p3 % 2^s
             half == IF s = 0 THEN 0 ELSE 2^(s - 1)
             kept == [hi |-> p1 \div 2^s,
                      mid |-> (p1 % 2^s) * 2^(18 - s) + (p2 % Limb) \div 2^s,
                      lo |-> (p2 % 2^s) * 2^(18 - s) + (p3 % Limb) \div 2^s,
                      e |-> x.e + s]
         IN IF s > 0 /\ (dropped > half \/ (dropped = half /\ kept.lo % 2 = 1))
            THEN next_up(kept) ELSE kept

\* round(x) for a double 0 <= x < 2^31: the nearest integer, a tie going to
\* the even one.  t is the number of bits of hi (e <= 16) or of mid (e > 16)
\* that stand after the binary point.
py_round(x) ==
    IF x = Zero \/ x.e < -1 THEN 0
    ELSE IF x.e = -1 THEN (IF x.hi = 2^16 /\ x.mid = 0 /\ x.lo = 0 THEN 0 ELSE 1)
    ELSE LET t == IF x.e <= 16 THEN 16 - x.e ELSE 34 - x.e
             limb == IF x.e <= 16 THEN x.hi ELSE x.mid
             below == IF x.e <= 16 THEN x.mid # 0 \/ x.lo # 0 ELSE x.lo # 0
             whole == IF x.e <= 16 THEN x.hi \div 2^t
                      ELSE x.hi * 2^(18 - t) + x.mid \div 2^t
             half == IF t > 0 THEN (limb % 2^t) \div 2^(t - 1) ELSE x.mid \div 2^17
             rest == IF t > 0 THEN limb % 2^(t - 1) # 0 \/ below
                     ELSE x.mid % 2^17 # 0 \/ x.lo # 0
         IN IF half = 0 THEN whole
            ELSE IF rest THEN whole + 1
            ELSE IF whole % 2 = 0 THEN whole ELSE whole + 1

preview_width == 640
\* scale_factor = video_width / preview_width
scale_factor(video_width) == float_div(video_width, preview_width, 0)
\* round(value * scale_factor); value * scale_factor is -(|value| * scale_factor)
\* for a negative value, and round(-x) = -round(x).
scaled(value, video_width) ==
    IF value >= 0 THEN py_round(float_mul(value, scale_factor(video_width)))
    ELSE 0 - py_round(float_mul(0 - value, scale_factor(video_width)))

\* text.replace("'", "\\'") on a text given as the sequence of its characters.
RECURSIVE escape(_)
escape(text) ==
    IF text = <<>> THEN <<>>
    ELSE (IF Head(text) = "'" THEN <<"\\", "'">> ELSE <<Head(text)>>) \o escape(Tail(text))

\* A label is <<name, number>>: "base" and "outv" carry 0, f"logo{idx}",
\* f"out{idx}" and f"outtext{idx}" the index, the engine's input pad
\* f"{n}:v" is <<"v", n>>.  The formats are injective and their names differ.
Label(name, n) == <<name, n>>

\* logo_files.get(filename): NoFilePath when the map has no entry.
NoFilePath == ""
\* logo_file_path and os.path.exists(logo_file_path), without the test of
\* the path.
logo_resolved_no_exists_test(logo, logo_files, existing) ==
    logo_files[logo.filename] # NoFilePath
\* logo_file_path and os.path.exists(logo_file_path)
logo_resolved(logo, logo_files, existing) ==
    /\ logo_files[logo.filename] # NoFilePath
    /\ logo_files[logo.filename] \in existing

\* The first loop: inputs.extend(['-i', logo_file_path]) per resolved logo.
RECURSIVE logo_inputs(_, _)
logo_inputs(a, i) ==
    IF i > Len(a.logo_overlays) THEN <<>>
    ELSE (IF logo_resolved(a.logo_overlays[i], a.logo_files, a.existing)
          THEN <<"-i", a.logo_files[a.logo_overlays[i].filename]>>
          ELSE <<>>) \o logo_inputs(a, i + 1)

\* logo_stages reading the engine input of the logo's position in the list.
logo_stages_input_by_idx(a, idx, current_label, logo_index) ==
    LET logo == a.logo_overlays[idx + 1]
        scaled_label == Label("logo", idx)
    IN << [op |-> "scale", inputs |-> <<Label("v", idx + 1)>>, out |-> scaled_label,
           width |-> scaled(py_or(logo.width, Some(100))[1], a.video_width),
           height |-> scaled(py_or(logo.height, Some(100))[1], a.video_width)],
          [op |-> "overlay", inputs |-> <<current_label, scaled_label>>,
           out |-> Label("out", idx), x |-> logo.x, y |-> logo.y,
           enable |-> enable_clause(logo, a.trim_start)] >>
\* The two stages of logo number idx (0-based), reading engine input logo_index.
logo_stages(a, idx, current_label, logo_index) ==
    LET logo == a.logo_overlays[idx + 1]
        scaled_label == Label("logo", idx)
    IN << [op |-> "scale", inputs |-> <<Label("v", logo_index)>>, out |-> scaled_label,
           width |-> scaled(py_or(logo.width, Some(100))[1], a.video_width),
           height |-> scaled(py_or(logo.height, Some(100))[1], a.video_width)],
          [op |-> "overlay", inputs |-> <<current_label, scaled_label>>,
           out |-> Label("out", idx), x |-> logo.x, y |-> logo.y,
           enable |-> enable_clause(logo, a.trim_start)] >>

\* logo_loop without the continue of unresolved logos.
RECURSIVE logo_loop_no_skip(_, _, _, _)
logo_loop_no_skip(a, idx, current_label, logo_index) ==
    IF idx >= Len(a.logo_overlays) THEN [stages |-> <<>>, current_label |-> current_label]
    ELSE LET rest == logo_loop_no_skip(a, idx + 1, Label("out", idx), logo_index + 1)
         IN [stages |-> logo_stages(a, idx, current_label, logo_index) \o rest.stages,
             current_label |-> rest.current_label]
\* The second loop, from logo number idx on.
RECURSIVE logo_loop(_, _, _, _)
logo_loop(a, idx, current_label, logo_index) ==
    IF idx >= Len(a.logo_overlays) THEN [stages |-> <<>>, current_label |-> current_label]
    ELSE IF ~logo_resolved(a.logo_overlays[idx + 1], a.logo_files, a.existing)
    THEN logo_loop(a, idx + 1, current_label, logo_index)
    ELSE LET rest == logo_loop(a, idx + 1, Label("out", idx), logo_index + 1)
         IN [stages |-> logo_stages(a, idx, current_label, logo_index) \o rest.stages,
             current_label |-> rest.current_label]

\* text_stage labelling its output out<idx>, as the composite stages do.
text_stage_out_label(a, idx, current_label) ==
    LET text == a.text_overlays[idx + 1]
    IN [op |-> "drawtext", inputs |-> <<current_label>>, out |-> Label("out", idx),
        text |-> escape(text.text), x |-> text.x, y |-> text.y,
        fontsize |-> scaled(py_or(py_or(text.fontSize, text.fontsize), Some(24))[1], a.video_width),
        fontcolor |-> py_or_str(py_or_str(text.color, text.fontcolor), Some("white"))[1],
        enable |-> enable_clause(text, a.trim_start)]
\* The drawtext stage of text number idx (0-based).
text_stage(a, idx, current_label) ==
    LET text == a.text_overlays[idx + 1]
    IN [op |-> "drawtext", inputs |-> <<current_label>>, out |-> Label("outtext", idx),
        text |-> escape(text.text), x |-> text.x, y |-> text.y,
        fontsize |-> scaled(py_or(py_or(text.fontSize, text.fontsize), Some(24))[1], a.video_width),
        fontcolor |-> py_or_str(py_or_str(text.color, text.fontcolor), Some("white"))[1],
        enable |-> enable_clause(text, a.trim_start)]

\* The third loop, from text number idx on.
RECURSIVE text_loop(_, _, _)
text_loop(a, idx, current_label) ==
    IF idx >= Len(a.text_overlays) THEN [stages |-> <<>>, current_label |-> current_label]
    ELSE LET rest == text_loop(a, idx + 1, Label("outtext", idx))
         IN [stages |-> <<text_stage(a, idx, current_label)>> \o rest.stages,
             current_label |-> rest.current_label]

\* build_overlay_filter with the text loop before the logo loop.
build_overlay_filter_texts_first(a) ==
    LET base == [op |-> "eq", inputs |-> <<Label("v", 0)>>, out |-> Label("base", 0),
                 brightness |-> a.brightness, contrast |-> a.contrast,
                 saturation |-> a.saturation]
        texts == text_loop(a, 0, Label("base", 0))
        logos == logo_loop(a, 0, texts.current_label, 1)
        final == [op |-> "format", inputs |-> <<logos.current_label>>, out |-> Label("outv", 0)]
    IN [done |-> TRUE,
        filter_complex |-> <<base>> \o texts.stages \o logos.stages \o <<final>>,
        inputs |-> logo_inputs(a, 1)]
\* build_overlay_filter: the stages of filter_complex in the order they are
\* appended (joined by ";" in the code), and the additional inputs.
build_overlay_filter(a) ==
    LET base == [op |-> "eq", inputs |-> <<Label("v", 0)>>, out |-> Label("base", 0),
                 brightness |-> a.brightness, contrast |-> a.contrast,
                 saturation |-> a.saturation]
        logos == logo_loop(a, 0, Label("base", 0), 1)
        texts == text_loop(a, 0, logos.current_label)
        final == [op |-> "format", inputs |-> <<texts.current_label>>, out |-> Label("outv", 0)]
    IN [done |-> TRUE,
        filter_complex |-> <<base>> \o logos.stages \o texts.stages \o <<final>>,
        inputs |-> logo_inputs(a, 1)]

NoArgs == [trim_start |-> 0, text_overlays |-> <<>>, logo_overlays |-> <<>>,
           logo_files |-> <<>>, existing |-> {}, video_width |-> 0,
           brightness |-> 0, contrast |-> 1, saturation |-> 1]
NoGraph == [done |-> FALSE, filter_complex |-> <<>>, inputs |-> <<>>]

\* ------------------------------------- get_video_info: the frame rate
\* str.split('/') on a string given as the tuple of its characters.
RECURSIVE split(_)
split(s) ==
    IF \A i \in 1..Len(s) : s[i] # "/" THEN <<s>>
    ELSE LET i == CHOOSE j \in 1..Len(s) : s[j] = "/" /\ \A k \in 1..(j - 1) : s[k] # "/"
         IN <<SubSeq(s, 1, i - 1)>> \o split(SubSeq(s, i + 1, Len(s)))

DigitValue == ("0" :> 0) @@ ("1" :> 1) @@ ("2" :> 2) @@ ("3" :> 3) @@ ("4" :> 4)
              @@ ("5" :> 5) @@ ("6" :> 6) @@ ("7" :> 7) @@ ("8" :> 8) @@ ("9" :> 9)
RECURSIVE digits_value(_)
digits_value(s) ==
    IF s = <<>> THEN 0
    ELSE 10 * digits_value(SubSeq(s, 1, Len(s) - 1)) + DigitValue[s[Len(s)]]

\* float(s) for a string of digits, letters and "/": the number a string of
\* digits stands for; None when float raises ValueError (no digits at all, or a
\* character that is no digit).
py_float(s) ==
    IF s # <<>> /\ \A i \in 1..Len(s) : s[i] \in DOMAIN DigitValue
    THEN Some(digits_value(s)) ELSE None

\* video_stream.get('r_frame_rate', '30/1')
DefaultRate == <<"3", "0", "/", "1">>
\* 30.0
DefaultFps == float_div(30, 1, 0)

\* Lines 76-77: the parts of the rate, then float(fps_parts[0]), then
\* float(fps_parts[1]), then the division; no except clause of get_video_info
\* catches ValueError or ZeroDivisionError.
fps(r_frame_rate) ==
    LET fps_parts == split(IF r_frame_rate = NoRate THEN DefaultRate ELSE r_frame_rate[1])
    IN IF Len(fps_parts) # 2 THEN [kind |-> "ok", fps |-> DefaultFps]
       ELSE IF py_float(fps_parts[1]) = None \/ py_float(fps_parts[2]) = None
       THEN [kind |-> "ValueError", fps |-> Zero]
       ELSE IF py_float(fps_parts[2])[1] = 0
       THEN [kind |-> "ZeroDivisionError", fps |-> Zero]
       ELSE [kind |-> "ok", fps |-> float_div(py_float(fps_parts[1])[1], py_float(fps_parts[2])[1], 0)]

\* get_video_info as a whole: what it raises, or the fps of the info it
\* returns (the other entries of the probe's JSON are numbers as the tool
\* prints them).
video_info(exists, run) ==
    LET outcome == get_video_info(exists, run.returncode, run.stdout)
    IN IF outcome # "ok" THEN [kind |-> outcome, fps |-> Zero]
       ELSE fps(run.r_frame_rate)

NoInfo == [kind |-> "none", fps |-> Zero]

\* ------------------------------------------------------------- requests
NoLogoField == [filename |-> "", key |-> NoKey]
LogoFields == {NoLogoField} \cup [filename : LogoNames, key : LogoKeys]
NoRun == [returncode |-> 0, stderr |-> <<>>, output_exists |-> FALSE]
NoProbeRun == [returncode |-> 0, stdout |-> "none", r_frame_rate |-> NoRate]
NoResult == [kind |-> "none", detail |-> NoDetail]

IdleRequest ==
    [pc |-> "idle", endpoint |-> "none", video_filename |-> "",
     k |-> 0, logo_files |-> [key \in LogoKeys |-> NoPath],
     temp_files_to_cleanup |-> {}, output_path |-> NoPath, staged |-> {},
     probe_run |-> NoProbeRun, engine_calls |-> 0, run |-> NoRun, result |-> NoResult]

Init ==
    /\ DEBUG_MODE \in BOOLEAN
    /\ now = 0
    /\ fs = [p \in AllPaths |-> NoFile]
    /\ req = [r \in Req |-> IdleRequest]
    /\ args = NoArgs
    /\ graph = NoGraph
    /\ probe = NoProbeRun
    /\ info = NoInfo

\* The event loop clock advances.  The clock is read only when an output
\* path is generated, so it is advanced while a request is about to do so.
Tick ==
    /\ now < MaxClock
    /\ \E r \in Req : req[r].pc = "video"
    /\ now' = now + 1
    /\ UNCHANGED <<DEBUG_MODE, fs, req, args, graph, probe, info>>

\* A request ends: its result, and the finally block when it ends inside try.
\* The handler's locals (k, logo_files, temp_files_to_cleanup) end with it.
Done(r, rec, kind, detail, f, in_try) ==
    /\ req' = [req EXCEPT ![r] = [rec EXCEPT !.pc = "done",
                                             !.result = [kind |-> kind, detail |-> detail],
                                             !.k = IdleRequest.k,
                                             !.logo_files = IdleRequest.logo_files,
                                             !.temp_files_to_cleanup = {}]]
    /\ fs' = IF in_try THEN Finally(f, rec.temp_files_to_cleanup) ELSE f

\* process_video_endpoint up to its first await: parameters and overlays are
\* parsed (HTTP 400 before anything is staged), temp_files_to_cleanup is set.
process_video_endpoint(r, name, valid) ==
    /\ req[r].pc = "idle"
    /\ LET rec == [req[r] EXCEPT !.endpoint = "process", !.video_filename = name]
       IN IF ~valid
          THEN Done(r, rec, "BadRequest", NoDetail, fs, FALSE)
          ELSE /\ req' = [req EXCEPT ![r] = [rec EXCEPT !.pc = "video",
                                                        !.temp_files_to_cleanup = {TempVideoPath(name)}]]
               /\ fs' = fs
    /\ UNCHANGED <<DEBUG_MODE, now, args, graph, probe, info>>

\* process_video_endpoint_alt up to the logo loop.
process_video_endpoint_alt(r, name, valid) ==
    /\ req[r].pc = "idle"
    /\ LET rec == [req[r] EXCEPT !.endpoint = "process_alt", !.video_filename = name]
       IN IF ~valid
          THEN Done(r, rec, "BadRequest", NoDetail, fs, FALSE)
          ELSE /\ req' = [req EXCEPT ![r] = [rec EXCEPT !.pc = "logos"]]
               /\ fs' = fs
    /\ UNCHANGED <<DEBUG_MODE, now, args, graph, probe, info>>

\* One iteration of the logo loop of process_video_endpoint_alt, for the form
\* field logo_<k> (field), read when the loop reaches it.  The loop runs
\* before the try block: an error of open() leaves the handler with no
\* cleanup.
StageLogo(r, field) ==
    /\ req[r].pc = "logos"
    /\ req[r].k < MaxLogoFields
    /\ LET idx == req[r].k
           logo_path == LogoPath(idx, field.filename)
       IN IF field.key = NoKey
          THEN /\ req' = [req EXCEPT ![r] = [@ EXCEPT !.k = idx + 1]]
               /\ fs' = fs
          ELSE IF ~Stageable(field.filename)
          THEN Done(r, req[r], "Unhandled", NoDetail, fs, FALSE)
          ELSE /\ fs' = [fs EXCEPT ![logo_path] = r]
               /\ req' = [req EXCEPT ![r] = [@ EXCEPT !.k = idx + 1,
                                                      !.logo_files = [@ EXCEPT ![field.key] = logo_path],
                                                      !.staged = @ \cup {logo_path}]]
    /\ UNCHANGED <<DEBUG_MODE, now, args, graph, probe, info>>

\* After the loop: temp_files_to_cleanup = [temp_video_path] + list(logo_files.values())
LogosStaged(r) ==
    /\ req[r].pc = "logos"
    /\ req[r].k = MaxLogoFields
    /\ req' = [req EXCEPT ![r] = [@ EXCEPT !.pc = "video",
                   !.temp_files_to_cleanup =
                       {TempVideoPath(req[r].video_filename)}
                       \cup ({req[r].logo_files[key] : key \in LogoKeys} \ {NoPath})]]
    /\ UNCHANGED <<DEBUG_MODE, now, fs, args, graph, probe, info>>

\* Both endpoints, inside try: the video is written, the output path is
\* generated from the loop clock, process_video and get_video_info test the
\* input path and the probe tool is started.
StageVideo(r) ==
    /\ req[r].pc = "video"
    /\ LET name == req[r].video_filename
           temp_video_path == TempVideoPath(name)
           written == [fs EXCEPT ![temp_video_path] = r]
           rec == [req[r] EXCEPT !.staged = @ \cup {temp_video_path},
                                 !.output_path = OutputPath(name, now)]
       IN IF ~Stageable(name)
          THEN Done(r, req[r], "InternalError", NoDetail, fs, TRUE)
          ELSE IF ~Exists(written, temp_video_path)
          THEN Done(r, rec, get_video_info(FALSE, 0, "none"), NoDetail, written, TRUE)
          ELSE /\ fs' = written
               /\ req' = [req EXCEPT ![r] = [rec EXCEPT !.pc = "probing"]]
    /\ UNCHANGED <<DEBUG_MODE, now, args, graph, probe, info>>

\* The probe tool has exited: get_video_info returns or raises; on return the
\* graph is compiled and the engine is started.
ProbeExit(r, run) ==
    /\ req[r].pc = "probing"
    /\ LET video_info_kind == video_info(TRUE, run).kind
           rec == [req[r] EXCEPT !.probe_run = run]
       IN IF video_info_kind # "ok"
          THEN Done(r, rec, video_info_kind, NoDetail, fs, TRUE)
          ELSE /\ req' = [req EXCEPT ![r] = [rec EXCEPT !.pc = "transcoding",
                                                        !.engine_calls = @ + 1]]
               /\ fs' = fs
    /\ UNCHANGED <<DEBUG_MODE, now, args, graph, probe, info>>

\* The running engine creates (or, with -y, overwrites) the output file.
EngineWrite(r) ==
    /\ req[r].pc = "transcoding"
    /\ fs[req[r].output_path] # r
    /\ fs' = [fs EXCEPT ![req[r].output_path] = r]
    /\ UNCHANGED <<DEBUG_MODE, now, req, args, graph, probe, info>>

\* process.communicate() returns: process_video classifies the run, the
\* endpoint answers (FileResponse or HTTP 500) and its finally block runs.
EngineExit(r, returncode, stderr) ==
    /\ req[r].pc = "transcoding"
    /\ LET output_exists == Exists(fs, req[r].output_path)
           outcome == process_video(returncode, stderr, output_exists)
           rec == [req[r] EXCEPT !.run = [returncode |-> returncode, stderr |-> stderr,
                                          output_exists |-> output_exists]]
       IN Done(r, rec, outcome.kind, outcome.detail, fs, TRUE)
    /\ UNCHANGED <<DEBUG_MODE, now, args, graph, probe, info>>

Next ==
    \/ Tick
    \/ \E r \in Req, name \in VideoNames, valid \in BOOLEAN :
           process_video_endpoint(r, name, valid)
    \/ \E r \in Req, name \in VideoNames, valid \in BOOLEAN :
           process_video_endpoint_alt(r, name, valid)
    \/ \E r \in Req, field \in LogoFields : StageLogo(r, field)
    \/ \E r \in Req : LogosStaged(r)
    \/ \E r \in Req : StageVideo(r)
    \/ \E r \in Req, run \in ProbeRuns : ProbeExit(r, run)
    \/ \E r \in Req : EngineWrite(r)
    \/ \E r \in Req, returncode \in ExitCodes, stderr \in StderrValues :
           EngineExit(r, returncode, stderr)

Spec == Init /\ [][Next]_vars

\* ------------------------------------------------ calls of the compiler
\* Largest overlay time and largest trim start, in seconds.
MaxTime == 8
MaxTrim == 5
\* Longest lists of logo overlays and of text overlays.
MaxLogos == 3
MaxTexts == 2

\* The resolved-path map of the calls: a.png and d.png are staged and on
\* disk, b.png is mapped to a path that does not exist, c.png has no entry.
LogoRefs == {"a.png", "b.png", "c.png", "d.png"}
StagedLogoFiles ==
    [f \in LogoRefs |-> CASE f = "a.png" -> "uploads/logo_0_a.png"
                          [] f = "b.png" -> "uploads/logo_1_b.png"
                          [] f = "d.png" -> "uploads/logo_2_d.png"
                          [] OTHER -> NoFilePath]
ExistingLogoFiles == {"uploads/logo_0_a.png", "uploads/logo_2_d.png"}

\* Overlays as request validation yields them (models/video_process.py):
\* times are None or >= 0, width, height and fontsize default to 100, 100, 24.
LogoOverlay(filename, start, end, startTime, endTime) ==
    [filename |-> filename, x |-> 50, y |-> 50, width |-> Some(100), height |-> Some(100),
     start |-> start, end |-> end, startTime |-> startTime, endTime |-> endTime]
TextOverlay(text, start, end, startTime, endTime) ==
    [text |-> text, x |-> 50, y |-> 50,
     start |-> start, end |-> end, startTime |-> startTime, endTime |-> endTime,
     fontsize |-> Some(24), fontSize |-> None, fontcolor |-> Some("white"), color |-> None]

RECURSIVE ListsUpTo(_, _)
ListsUpTo(S, n) ==
    IF n = 0 THEN {<<>>}
    ELSE LET shorter == ListsUpTo(S, n - 1)
         IN shorter \cup {Append(l, x) : l \in {m \in shorter : Len(m) = n - 1}, x \in S}

Call(trim_start, text_overlays, logo_overlays, video_width) ==
    [trim_start |-> trim_start, text_overlays |-> text_overlays,
     logo_overlays |-> logo_overlays, logo_files |-> StagedLogoFiles,
     existing |-> ExistingLogoFiles, video_width |-> video_width,
     brightness |-> 0, contrast |-> 1, saturation |-> 1]

NoRequests ==
    /\ DEBUG_MODE = FALSE
    /\ now = 0
    /\ fs = [p \in AllPaths |-> NoFile]
    /\ req = [r \in Req |-> IdleRequest]
NoProbe ==
    /\ probe = NoProbeRun
    /\ info = NoInfo
NoCompile ==
    /\ args = NoArgs
    /\ graph = NoGraph

\* Calls with lists of overlays: every mix of resolved and unresolved logos.
InitCompile ==
    /\ NoRequests
    /\ NoProbe
    /\ graph = NoGraph
    /\ \E logos \in ListsUpTo({LogoOverlay(f, s, None, None, None) :
                                  f \in LogoRefs, s \in {None, Some(2)}}, MaxLogos),
          texts \in ListsUpTo({TextOverlay(<<"h", "i">>, None, None, None, None),
                               TextOverlay(<<"'">>, Some(1), Some(2), None, None)}, MaxTexts),
          trim_start \in {1}, video_width \in {1280} :
          args = Call(trim_start, texts, logos, video_width)

\* Calls with one overlay, text or logo, and every choice of its four times.
InitWindow ==
    /\ NoRequests
    /\ NoProbe
    /\ graph = NoGraph
    /\ \E start, end, startTime, endTime \in Optional(0..MaxTime),
          trim_start \in 0..MaxTrim, kind \in {"text", "logo"} :
          args = IF kind = "text"
                 THEN Call(trim_start, <<TextOverlay(<<"h", "i">>, start, end, startTime, endTime)>>,
                           <<>>, 640)
                 ELSE Call(trim_start, <<>>,
                           <<LogoOverlay("a.png", start, end, startTime, endTime)>>, 640)

\* process_video calls build_overlay_filter.
Compile ==
    /\ ~graph.done
    /\ graph' = build_overlay_filter(args)
    /\ UNCHANGED <<args, request_vars, probe_vars>>

SpecCompile == InitCompile /\ [][Compile]_vars
SpecWindow == InitWindow /\ [][Compile]_vars

\* Largest declared dimension (logo width, logo height, font size), in tens.
MaxDimTens == 11
\* Declared dimensions: the defaults' neighbourhood, and 24, the default font size.
Dims == {24} \cup {10 * k : k \in 1..MaxDimTens}
\* Probed widths: 0 (the probe's default when the stream has no width), QCIF,
\* 224, CIF, the preview width, 960, 720p and 1080p.
VideoWidths == {0, 176, 224, 352, 640, 960, 1280, 1920}

\* Calls with one resolved logo and one text, every declared width, height
\* and font size, at every probed width.
InitScale ==
    /\ NoRequests
    /\ NoProbe
    /\ graph = NoGraph
    /\ \E width, height, fontSize \in Dims, video_width \in VideoWidths :
          args = Call(0,
                      <<[TextOverlay(<<"h", "i">>, None, None, None, None)
                            EXCEPT !.fontSize = Some(fontSize)]>>,
                      <<[LogoOverlay("a.png", None, None, None, None)
                            EXCEPT !.width = Some(width), !.height = Some(height)]>>,
                      video_width)

SpecScale == InitScale /\ [][Compile]_vars

\* Longest overlay text, in characters.
MaxTextLen == 2
\* The characters of overlay texts: a letter and the characters the engine's
\* filter graph syntax gives a meaning to.
Chars == {"a", "'", "\\", ":", ",", ";", "[", "]"}

\* Calls with one text overlay, every text of up to MaxTextLen characters.
InitText ==
    /\ NoRequests
    /\ NoProbe
    /\ graph = NoGraph
    /\ \E text \in ListsUpTo(Chars, MaxTextLen) :
          args = Call(0, <<TextOverlay(text, None, None, None, None)>>, <<>>, 640)

SpecText == InitText /\ [][Compile]_vars

\* Largest font size of a text overlay.
MaxFontSize == 2
\* Colours of a text overlay; the empty string is a string too.
Colors == {"", "red", "blue"}

\* What request validation accepts for the font fields of a TextOverlay
\* (models/video_process.py 19-22): fontsize is null or an integer >= 1,
\* fontSize is null or any integer, fontcolor and color are null or strings.
TextOverlayFonts ==
    [fontsize : Optional(1..MaxFontSize), fontSize : Optional(-1..MaxFontSize),
     fontcolor : Optional(Colors), color : Optional(Colors)]

\* Calls with one text overlay, every accepted choice of its font fields, at
\* the preview width, where scaling leaves the font size as it is.
InitFont ==
    /\ NoRequests
    /\ NoProbe
    /\ graph = NoGraph
    /\ \E f \in TextOverlayFonts :
          args = Call(0, <<[TextOverlay(<<"h", "i">>, None, None, None, None)
                               EXCEPT !.fontsize = f.fontsize, !.fontSize = f.fontSize,
                                      !.fontcolor = f.fontcolor, !.color = f.color]>>,
                      <<>>, preview_width)

SpecFont == InitFont /\ [][Compile]_vars

\* ------------------------------------------------- calls of the probe
\* Longest frame-rate entry, in characters.
MaxRateLen == 4
\* The characters of frame-rate entries: two digits, a letter and the slash.
RateChars == {"0", "3", "a", "/"}

\* Calls of get_video_info on an existing file: the probe runs of the
\* requests, and every frame-rate entry of up to MaxRateLen characters,
\* the absent one included.
InitProbe ==
    /\ NoRequests
    /\ NoCompile
    /\ info = NoInfo
    /\ \E run \in ProbeRuns \cup [returncode : {0}, stdout : {"json"},
                                  r_frame_rate : Optional(ListsUpTo(RateChars, MaxRateLen))] :
          probe = run

\* The endpoints call get_video_info.
Probe ==
    /\ info = NoInfo
    /\ info' = video_info(TRUE, probe)
    /\ UNCHANGED <<probe, request_vars, compile_vars>>

SpecProbe == InitProbe /\ [][Probe]_vars

\* ---------------------------------------------------------------- claims
Finished(r) == req[r].pc = "done"
\* The request's engine ran to its exit and process_video classified the run.
EngineRan(r) == Finished(r) /\ req[r].run # NoRun
InFlight(r) == req[r].pc \in {"logos", "video", "probing", "transcoding"}

\* C1: every transcode run is a success exactly when the engine exited with
\* code zero and the output path exists; a non-zero exit is a failure that
\* carries the exit code and the whole diagnostic text; a zero exit with the
\* output missing is a failure that differs from every engine-reported one.
C1_OutcomeClassification ==
    /\ \A r \in Req : EngineRan(r) =>
          /\ (req[r].result.kind = "success")
                 <=> (req[r].run.returncode = 0 /\ req[r].run.output_exists)
          /\ req[r].run.returncode # 0 =>
                 req[r].result.detail = <<req[r].run.returncode, req[r].run.stderr>>
    /\ \A r1, r2 \in Req :
          /\ EngineRan(r1) /\ req[r1].run.returncode # 0
          /\ EngineRan(r2) /\ req[r2].run.returncode = 0 /\ ~req[r2].run.output_exists
          => /\ req[r2].result.kind # "success"
             /\ req[r2].result # req[r1].result

\* C2: once a request has ended in an error no file is at its output path.
C2_NoOutputAfterError ==
    \A r \in Req :
        Finished(r) /\ req[r].result.kind # "success" /\ req[r].output_path # NoPath
            => ~Exists(fs, req[r].output_path)

\* C3: two requests in flight together with the same video file name have
\* different output paths.
C3_DistinctOutputPaths ==
    \A r1, r2 \in Req :
        /\ r1 # r2
        /\ req[r1].pc \in {"probing", "transcoding"}
        /\ req[r2].pc \in {"probing", "transcoding"}
        /\ req[r1].video_filename = req[r2].video_filename
        => req[r1].output_path # req[r2].output_path

\* C4: until its own transcode has completed, every file a request staged is
\* still there with the content that request wrote.
C4_StagedFilesIntact ==
    \A r \in Req : InFlight(r) => \A p \in req[r].staged : fs[p] = r

\* C5: with debug-retain off, no file a request staged is left once the
\* request has terminated, whatever the exit path.
C5_TempFilesRemoved ==
    ~DEBUG_MODE => \A r \in Req : Finished(r) => \A p \in req[r].staged : fs[p] # r

\* C6: a request starts the engine at most once, and not at all when the
\* input is missing, the probe tool exits non-zero, its output does not parse
\* or holds no video stream.
ProbeFailed(run) == run.returncode # 0 \/ run.stdout \in {"garbage", "no_streams"}
C6_EngineAtMostOnce ==
    \A r \in Req :
        /\ req[r].engine_calls <= 1
        /\ ProbeFailed(req[r].probe_run) => req[r].engine_calls = 0
        /\ req[r].result.kind \in PreCompileFailures => req[r].engine_calls = 0

C6_Witness ==
    \E r1, r2 \in Req :
        /\ Finished(r1) /\ req[r1].result.kind = "ProbeParseFailure" /\ req[r1].engine_calls = 0
        /\ Finished(r2) /\ req[r2].result.kind = "FFmpegFailed" /\ req[r2].engine_calls = 1

\* ------------------------------------------------ claims on the compiler
Range(seq) == {seq[i] : i \in 1..Len(seq)}
Stages == graph.filter_complex

\* Each overlay that has a gated stage, with that stage: logo number i owns
\* the stage that produces out<i>, text number i the one producing outtext<i>.
GatedPairs ==
    UNION {{<<args.logo_overlays[i], st>> :
               st \in {t \in Range(Stages) : t.out = Label("out", i - 1)}} :
           i \in 1..Len(args.logo_overlays)}
    \cup
    UNION {{<<args.text_overlays[i], st>> :
               st \in {t \in Range(Stages) : t.out = Label("outtext", i - 1)}} :
           i \in 1..Len(args.text_overlays)}

\* The claims' own reading of the overlay lists.
Unresolved(logo) ==
    \/ args.logo_files[logo.filename] = NoFilePath
    \/ args.logo_files[logo.filename] \notin args.existing
RECURSIVE Kept(_)
Kept(logos) ==
    IF logos = <<>> THEN <<>>
    ELSE (IF Unresolved(Head(logos)) THEN <<>> ELSE <<Head(logos)>>) \o Kept(Tail(logos))
WithoutSkipped == build_overlay_filter([args EXCEPT !.logo_overlays = Kept(args.logo_overlays)])

NoTraceOfSkipped ==
    \A i \in 1..Len(args.logo_overlays) :
        Unresolved(args.logo_overlays[i]) =>
            /\ \A st \in Range(Stages) :
                   /\ st.out \notin {Label("logo", i - 1), Label("out", i - 1)}
                   /\ \A l \in Range(st.inputs) :
                          l \notin {Label("logo", i - 1), Label("out", i - 1)}
            /\ args.logo_files[args.logo_overlays[i].filename] \notin Range(graph.inputs)
EndsWithTerminalLabel ==
    /\ Stages[Len(Stages)].op = "format"
    /\ Stages[Len(Stages)].out = Label("outv", 0)
    /\ \A i \in 1..(Len(Stages) - 1) : Stages[i].out # Label("outv", 0)

\* C7 as claimed: an unresolved image overlay leaves no scale stage, no
\* composite stage and no auxiliary input, the graph ends with the terminal
\* label of the format stage, and the result is the one compiled from the
\* list without the skipped overlays.
C7_SkippedAsIfAbsent ==
    graph.done =>
        /\ NoTraceOfSkipped
        /\ EndsWithTerminalLabel
        /\ graph = WithoutSkipped

\* Labels logo<i> and out<i> renumbered by the rank of i among the scale
\* stages of the graph.
Rank(n) == Cardinality({st \in Range(Stages) : st.op = "scale" /\ st.out[2] < n})
Renumber(l) == IF l[1] \in {"logo", "out"} THEN Label(l[1], Rank(l[2])) ELSE l
Renumbered(st) ==
    [st EXCEPT !.out = Renumber(@), !.inputs = [i \in 1..Len(@) |-> Renumber(@[i])]]

\* C7, amended: as C7_SkippedAsIfAbsent, the result being the one compiled
\* from the list without the skipped overlays up to the numbers in the labels
\* logo<i> and out<i>, which stay the overlays' positions in the full list.
C7_SkippedAsIfAbsentUpToLabels ==
    graph.done =>
        /\ NoTraceOfSkipped
        /\ EndsWithTerminalLabel
        /\ graph.inputs = WithoutSkipped.inputs
        /\ [i \in 1..Len(Stages) |-> Renumbered(Stages[i])] = WithoutSkipped.filter_complex

C7_Witness ==
    /\ graph.done
    /\ Len(args.logo_overlays) = 3
    /\ args.logo_overlays[1].filename = "c.png"
    /\ args.logo_overlays[2].filename = "b.png"
    /\ args.logo_overlays[3].filename = "a.png"
    /\ graph.inputs = <<"-i", "uploads/logo_0_a.png">>
    /\ \E st \in Range(Stages) : st.op = "overlay" /\ st.out = Label("out", 2)
    /\ Len(args.text_overlays) = 1

\* primary ?? secondary
first_non_null(a, b) == IF a # None THEN a ELSE b
RawStart(o) == first_non_null(first_non_null(o.start, o.startTime), Some(0))[1]
RawEnd(o) == first_non_null(o.end, o.endTime)
Max0(n) == IF n > 0 THEN n ELSE 0

\* C8: the raw start of an overlay is the first non-null of start and
\* startTime, else 0, and its raw end the first non-null of end and endTime,
\* else unbounded.  The raw values are the emitted ones when trim_start is 0.
C8_FirstNonNullWins ==
    graph.done /\ args.trim_start = 0 =>
        \A p \in GatedPairs :
            /\ p[2].enable.start = RawStart(p[1])
            /\ p[2].enable.end = RawEnd(p[1])

\* C9: the emitted window starts at max(0, rawStart - trimStart) and ends
\* unbounded when rawEnd is null, at max(0, rawEnd - trimStart) otherwise.
C9_WindowRebased ==
    graph.done =>
        \A p \in GatedPairs :
            /\ p[2].enable.start = Max0(RawStart(p[1]) - args.trim_start)
            /\ p[2].enable.end = IF RawEnd(p[1]) = None THEN INF
                                 ELSE Some(Max0(RawEnd(p[1])[1] - args.trim_start))

\* C10 as claimed: every emitted window has 0 <= start, and an end that is
\* unbounded or not before the start.
C10_WindowOrdered ==
    graph.done =>
        \A p \in GatedPairs :
            /\ 0 <= p[2].enable.start
            /\ p[2].enable.end = INF \/ p[2].enable.end[1] >= p[2].enable.start

\* The start and the end the compiler picks: the first of the pair that is
\* neither null nor 0.
PickedStart(o) == IF o.start \notin {None, Some(0)} THEN o.start[1]
                  ELSE IF o.startTime \notin {None, Some(0)} THEN o.startTime[1] ELSE 0
PickedEnd(o) == IF o.end \notin {None, Some(0)} THEN o.end ELSE o.endTime

\* C10, amended: every emitted window has 0 <= start and an end that is
\* unbounded or >= 0; the end is not before the start when the end the
\* compiler picked is not before the start it picked.
C10_WindowNonNegative ==
    graph.done =>
        \A p \in GatedPairs :
            /\ 0 <= p[2].enable.start
            /\ p[2].enable.end = INF \/ p[2].enable.end[1] >= 0
            /\ PickedEnd(p[1]) # None /\ PickedEnd(p[1])[1] >= PickedStart(p[1])
                   => p[2].enable.end # INF /\ p[2].enable.end[1] >= p[2].enable.start

C10_Witness ==
    /\ graph.done
    /\ args.trim_start = 5
    /\ \E p \in GatedPairs :
           /\ p[1].start = Some(3) /\ p[1].end = Some(8)
           /\ p[2].enable = [start |-> 0, end |-> Some(3)]

\* round(n / d) of the exact quotient of n >= 0 by d > 0: the nearest
\* integer, a tie going to the even one.
round_exact(n, d) ==
    LET q == n \div d
        r == n % d
    IN IF 2 * r < d THEN q
       ELSE IF 2 * r > d THEN q + 1
       ELSE IF q % 2 = 0 THEN q ELSE q + 1

ScaleStageOf(i) == CHOOSE st \in Range(Stages) : st.op = "scale" /\ st.out = Label("logo", i - 1)
TextStageOf(i) == CHOOSE st \in Range(Stages) : st.out = Label("outtext", i - 1)

\* C11: at every probed width, every emitted logo width, logo height and font
\* size is round(declared * videoWidth / 640), each on its own.
C11_ScaledDimensions ==
    graph.done =>
        /\ \A i \in 1..Len(args.logo_overlays) :
              /\ ScaleStageOf(i).width
                     = round_exact(args.logo_overlays[i].width[1] * args.video_width, 640)
              /\ ScaleStageOf(i).height
                     = round_exact(args.logo_overlays[i].height[1] * args.video_width, 640)
        /\ \A i \in 1..Len(args.text_overlays) :
              TextStageOf(i).fontsize
                  = round_exact(args.text_overlays[i].fontSize[1] * args.video_width, 640)

\* The characters the filter graph syntax treats as delimiters.
Delimiters == {"'", "\\", ":", ",", ";", "[", "]"}

\* Every delimiter of an emitted text is escaped: read from the left, a
\* backslash escapes the character after it, and no other character is a
\* delimiter.
RECURSIVE AllEscaped(_)
AllEscaped(emitted) ==
    IF emitted = <<>> THEN TRUE
    ELSE IF Head(emitted) = "\\" THEN Len(emitted) >= 2 /\ AllEscaped(Tail(Tail(emitted)))
    ELSE Head(emitted) \notin Delimiters /\ AllEscaped(Tail(emitted))

\* C12: in every text-draw stage every delimiter character of the text (single
\* quote, backslash, colon, comma, semicolon, square brackets) is escaped.
C12_DelimitersEscaped ==
    graph.done =>
        \A i \in 1..Len(args.text_overlays) : AllEscaped(TextStageOf(i).text)

\* The claim's own reading of a frame-rate entry: N/D, N and D numbers, D
\* not zero.
IsNumber(s) == s # <<>> /\ \A i \in 1..Len(s) : s[i] \in {"0", "1", "2", "3", "4", "5", "6", "7", "8", "9"}
Slashes(s) == {i \in 1..Len(s) : s[i] = "/"}
Numerator(s) == SubSeq(s, 1, (CHOOSE i \in Slashes(s) : TRUE) - 1)
Denominator(s) == SubSeq(s, (CHOOSE i \in Slashes(s) : TRUE) + 1, Len(s))
WellFormedRate(r) ==
    /\ r # NoRate
    /\ Cardinality(Slashes(r[1])) = 1
    /\ IsNumber(Numerator(r[1])) /\ IsNumber(Denominator(r[1]))
    /\ digits_value(Denominator(r[1])) # 0
ProbeOutputParsed == probe.returncode = 0 /\ probe.stdout = "json"

\* C13: when the probe's output has a video stream, get_video_info returns
\* metadata; its fps is N/D for a frame-rate entry N/D with numbers N and
\* D # 0, and 30.0 when the entry is absent or anything else.
C13_FpsDefault ==
    info # NoInfo /\ ProbeOutputParsed =>
        /\ info.kind = "ok"
        /\ info.fps = IF WellFormedRate(probe.r_frame_rate)
                      THEN float_div(digits_value(Numerator(probe.r_frame_rate[1])),
                                     digits_value(Denominator(probe.r_frame_rate[1])), 0)
                      ELSE float_div(30, 1, 0)

\* The stages of the graph with the given operator, in graph order.
StagesOf(ops) == SelectSeq(Stages, LAMBDA st : st.op \in ops)
\* The positions (0-based, as in the labels) of the image overlays that have
\* a scale stage, in graph order.
Appended == [k \in 1..Len(StagesOf({"scale"})) |-> StagesOf({"scale"})[k].out[2]]

\* C14: the k-th auxiliary input is the source path of the k-th image overlay
\* that was appended as a stage, the k-th scale stage reads engine input k,
\* and there are as many auxiliary inputs as composite stages.
C14_AuxiliaryInputOrder ==
    graph.done =>
        /\ Len(graph.inputs) = 2 * Len(StagesOf({"overlay"}))
        /\ Len(StagesOf({"scale"})) = Len(StagesOf({"overlay"}))
        /\ \A k \in 1..Len(StagesOf({"scale"})) :
              /\ graph.inputs[2 * k - 1] = "-i"
              /\ graph.inputs[2 * k]
                     = args.logo_files[args.logo_overlays[Appended[k] + 1].filename]
              /\ StagesOf({"scale"})[k].inputs = <<Label("v", k)>>

C14_Witness ==
    /\ graph.done
    /\ Len(args.logo_overlays) = 3
    /\ args.logo_overlays[1].filename = "b.png"
    /\ args.logo_overlays[2].filename = "d.png"
    /\ args.logo_overlays[3].filename = "a.png"
    /\ graph.inputs = <<"-i", "uploads/logo_2_d.png", "-i", "uploads/logo_0_a.png">>
    /\ Appended = <<1, 2>>

\* The stages of the chain: every stage but the scale stages, whose outputs
\* are the second inputs of the composite stages.
Chain == StagesOf({"eq", "overlay", "drawtext", "format"})

\* C15: the output labels of a graph are pairwise distinct; the first stage
\* reads the primary input and produces base, every later chain stage reads
\* the output of the chain stage before it; the terminal label is produced
\* once, by the final format stage.
C15_LabelsChained ==
    graph.done =>
        /\ \A i, j \in 1..Len(Stages) : i # j => Stages[i].out # Stages[j].out
        /\ Stages[1] = Chain[1]
        /\ Chain[1].inputs = <<Label("v", 0)>> /\ Chain[1].out = Label("base", 0)
        /\ \A j \in 2..Len(Chain) : Chain[j].inputs[1] = Chain[j - 1].out
        /\ \A st \in Range(StagesOf({"overlay"})) :
              \E sc \in Range(StagesOf({"scale"})) : st.inputs[2] = sc.out
        /\ Cardinality({i \in 1..Len(Stages) : Stages[i].out = Label("outv", 0)}) = 1
        /\ Stages[Len(Stages)].op = "format" /\ Stages[Len(Stages)].out = Label("outv", 0)

C15_Witness ==
    /\ graph.done
    /\ Len(StagesOf({"overlay"})) = 2
    /\ Len(StagesOf({"drawtext"})) = 2
    /\ Len(args.logo_overlays) = 3
    /\ Len(Chain) = 6

\* The image overlays the compiler resolves, in declaration order.
Resolved == Kept(args.logo_overlays)
\* The operators of the stages, in graph order.
Operators == [i \in 1..Len(Stages) |-> Stages[i].op]
RECURSIVE Repeat(_, _)
Repeat(seq, n) == IF n = 0 THEN <<>> ELSE seq \o Repeat(seq, n - 1)

\* C16: the graph is the adjustment stage, then a scale and a composite stage
\* per resolved image overlay in declaration order, then a text-draw stage
\* per text overlay in declaration order, then the format stage.
C16_StageOrder ==
    graph.done =>
        /\ Operators = <<"eq">> \o Repeat(<<"scale", "overlay">>, Len(Resolved))
                           \o Repeat(<<"drawtext">>, Len(args.text_overlays)) \o <<"format">>
        /\ \A k \in 1..Len(Resolved) :
              /\ args.logo_overlays[Appended[k] + 1] = Resolved[k]
              /\ k > 1 => Appended[k - 1] < Appended[k]
              /\ Stages[2 * k + 1].enable = enable_clause(Resolved[k], args.trim_start)
              /\ Stages[2 * k + 1].inputs[2] = Stages[2 * k].out
        /\ \A k \in 1..Len(args.text_overlays) :
              /\ Stages[1 + 2 * Len(Resolved) + k].out = Label("outtext", k - 1)
              /\ Stages[1 + 2 * Len(Resolved) + k].enable
                     = enable_clause(args.text_overlays[k], args.trim_start)

C16_Witness ==
    /\ graph.done
    /\ Operators = <<"eq", "scale", "overlay", "scale", "overlay", "drawtext", "drawtext", "format">>
    /\ Len(args.logo_overlays) = 3
    /\ args.text_overlays[1] # args.text_overlays[2]
    /\ args.logo_overlays[1].start # args.logo_overlays[3].start

\* C17: with no text overlay and no image overlay, or only unresolved image
\* overlays, the graph is the adjustment stage from the primary input to base
\* and the format stage from base to the terminal label, with no auxiliary
\* input.
C17_EmptyGraph ==
    graph.done /\ args.text_overlays = <<>> /\ Resolved = <<>> =>
        /\ Len(Stages) = 2
        /\ Stages[1].op = "eq"
        /\ Stages[1].inputs = <<Label("v", 0)>> /\ Stages[1].out = Label("base", 0)
        /\ Stages[2].op = "format"
        /\ Stages[2].inputs = <<Label("base", 0)>> /\ Stages[2].out = Label("outv", 0)
        /\ graph.inputs = <<>>

C17_Witness ==
    /\ graph.done
    /\ args.text_overlays = <<>>
    /\ Len(args.logo_overlays) = 2
    /\ args.logo_overlays[1].filename = "b.png"
    /\ args.logo_overlays[2].filename = "c.png"
    /\ Len(Stages) = 2

\* C18: the font size used is fontSize if present, else fontsize if present,
\* else 24, and is >= 1; the colour used is color if present, else fontcolor
\* if present, else "white".  At the preview width the emitted font size is
\* the one used.
C18_FontPrecedence ==
    graph.done =>
        \A i \in 1..Len(args.text_overlays) :
            LET text == args.text_overlays[i]
            IN /\ TextStageOf(i).fontsize
                      = first_non_null(first_non_null(text.fontSize, text.fontsize), Some(24))[1]
               /\ TextStageOf(i).fontsize >= 1
               /\ TextStageOf(i).fontcolor
                      = first_non_null(first_non_null(text.color, text.fontcolor), Some("white"))[1]

====
